---- MODULE Spec2Model ----
(***************************************************************************)
(* The example filter and trigger scripts of openzeppelin-monitor:         *)
(*   config/filters/filter_block_number.py            (function)           *)
(*   tests/integration/fixtures/filters/test3.py      (function, a copy)   *)
(*   config/filters/stellar_filter_block_number.py    (program, argv)      *)
(*   config/triggers/scripts/custom_notification.py   (program, stdin)     *)
(* Texts (argv entries, stdin, printed lines) are strings read character   *)
(* by character; JSON documents are parsed by json_loads below, and the    *)
(* Python values it builds are tagged records.                             *)
(***************************************************************************)
EXTENDS Integers, Sequences, FiniteSets, TLC

(***************************************************************************)
(* Bounds of the model.                                                    *)
(***************************************************************************)
\* ledger numbers 0..MaxLedger are offered as hex strings and as JSON numbers
MaxLedger == 18
\* block numbers 0..MaxBlock are offered to filter_block_number
MaxBlock == 6
\* the ScriptSpec's extra_args holds at most MaxExtra entries
MaxExtra == 1

(***************************************************************************)
(* Characters and strings.                                                 *)
(***************************************************************************)
Ch(s, i) == SubSeq(s, i, i)

DecDigits == <<"0", "1", "2", "3", "4", "5", "6", "7", "8", "9">>
HexLower == <<"0", "1", "2", "3", "4", "5", "6", "7", "8", "9",
              "a", "b", "c", "d", "e", "f">>
HexUpper == <<"0", "1", "2", "3", "4", "5", "6", "7", "8", "9",
              "A", "B", "C", "D", "E", "F">>
UpperCase == <<"A", "B", "C", "D", "E", "F", "G", "H", "I", "J", "K", "L", "M",
               "N", "O", "P", "Q", "R", "S", "T", "U", "V", "W", "X", "Y", "Z">>
LowerCase == <<"a", "b", "c", "d", "e", "f", "g", "h", "i", "j", "k", "l", "m",
               "n", "o", "p", "q", "r", "s", "t", "u", "v", "w", "x", "y", "z">>

IsIn(c, tbl) == \E k \in 1..Len(tbl) : tbl[k] = c
IndexOf(c, tbl) == CHOOSE k \in 1..Len(tbl) : tbl[k] = c

\* str(n) of a Python int: the decimal numeral
RECURSIVE DecNat(_)
DecNat(n) == IF n < 10 THEN DecDigits[n + 1]
             ELSE DecNat(n \div 10) \o DecDigits[(n % 10) + 1]
int_str(n) == IF n < 0 THEN "-" \o DecNat(-n) ELSE DecNat(n)

\* str.lower(): every upper-case letter becomes its lower-case letter
RECURSIVE str_lower(_)
str_lower(s) ==
    IF Len(s) = 0 THEN ""
    ELSE LET c == Ch(s, 1)
             lc == IF IsIn(c, UpperCase) THEN LowerCase[IndexOf(c, UpperCase)] ELSE c
         IN  lc \o str_lower(SubSeq(s, 2, Len(s)))

\* str(b) of a Python bool
bool_str(b) == IF b THEN "True" ELSE "False"

(***************************************************************************)
(* Python values: None, bool, int, str, list, dict (insertion-ordered).    *)
(***************************************************************************)
PyNone == [t |-> "NoneType"]
PyBool(b) == [t |-> "bool", b |-> b]
PyInt(n) == [t |-> "int", n |-> n]
PyStr(s) == [t |-> "str", s |-> s]
PyList(a) == [t |-> "list", a |-> a]
PyDict(items) == [t |-> "dict", items |-> items]

HasKey(items, k) == \E i \in 1..Len(items) : items[i].k = k
KeyIndex(items, k) == CHOOSE i \in 1..Len(items) : items[i].k = k
\* d[k] = v on a dict: a repeated key keeps its place and takes the new value
DictSet(items, k, v) ==
    IF HasKey(items, k)
    THEN [items EXCEPT ![KeyIndex(items, k)] = [k |-> k, v |-> v]]
    ELSE Append(items, [k |-> k, v |-> v])

\* An exception: its type and str(e).  NoExc: nothing was raised.
Exc(type, msg) == [type |-> type, msg |-> msg]
NoExc == Exc("", "")
Ok(v) == [exc |-> NoExc, v |-> v]
Raise(type, msg) == [exc |-> Exc(type, msg), v |-> PyNone]

(***************************************************************************)
(* json.loads, over texts of the alphabet the model offers: objects,       *)
(* arrays, strings without escapes, integers, true / false / null, and     *)
(* blanks between tokens.  A scan returns [ok, v, next] or, failing,       *)
(* [ok, msg, pos] as json.JSONDecodeError(msg, doc, pos) carries them.     *)
(***************************************************************************)
Scanned(v, next) == [ok |-> TRUE, v |-> v, next |-> next, msg |-> "", pos |-> 0]
ScanFail(msg, pos) == [ok |-> FALSE, v |-> PyNone, next |-> 0, msg |-> msg, pos |-> pos]

At(s, i) == IF i >= 1 /\ i <= Len(s) THEN Ch(s, i) ELSE ""
\* s[i-1 : j] of Python: cut short at the end of s
Slice(s, i, j) == SubSeq(s, i, IF j <= Len(s) THEN j ELSE Len(s))

RECURSIVE SkipWs(_, _)
SkipWs(s, i) == IF At(s, i) = " " THEN SkipWs(s, i + 1) ELSE i

\* the index of the closing quote at or after i, 0 when the string never ends
RECURSIVE FindQuote(_, _)
FindQuote(s, i) ==
    IF i > Len(s) THEN 0
    ELSE IF Ch(s, i) = "\"" THEN i
    ELSE FindQuote(s, i + 1)

\* s[i] opens a string
ScanString(s, i) ==
    LET j == FindQuote(s, i + 1)
    IN  IF j = 0 THEN ScanFail("Unterminated string starting at", i)
        ELSE Scanned(PyStr(SubSeq(s, i + 1, j - 1)), j + 1)

RECURSIVE DigitsEnd(_, _)
DigitsEnd(s, i) == IF IsIn(At(s, i), DecDigits) THEN DigitsEnd(s, i + 1) ELSE i

RECURSIVE DecValue(_)
DecValue(d) ==
    IF Len(d) = 0 THEN 0
    ELSE 10 * DecValue(SubSeq(d, 1, Len(d) - 1)) + (IndexOf(Ch(d, Len(d)), DecDigits) - 1)

\* NUMBER_RE's integer part: -?(0|[1-9][0-9]*)
ScanNumber(s, i) ==
    LET neg == At(s, i) = "-"
        b == IF neg THEN i + 1 ELSE i
        e == IF At(s, b) = "0" THEN b + 1 ELSE DigitsEnd(s, b)
    IN  IF e = b THEN ScanFail("Expecting value", i)
        ELSE Scanned(PyInt(IF neg THEN 0 - DecValue(SubSeq(s, b, e - 1))
                                  ELSE DecValue(SubSeq(s, b, e - 1))), e)

RECURSIVE scan_once(_, _), JSONObject(_, _, _), JSONArray(_, _, _)
scan_once(s, i) ==
    LET c == At(s, i)
    IN  IF c = "\"" THEN ScanString(s, i)
        ELSE IF c = "{" THEN
            LET j == SkipWs(s, i + 1)
            IN  IF At(s, j) = "}" THEN Scanned(PyDict(<<>>), j + 1)
                ELSE JSONObject(s, j, <<>>)
        ELSE IF c = "[" THEN
            LET j == SkipWs(s, i + 1)
            IN  IF At(s, j) = "]" THEN Scanned(PyList(<<>>), j + 1)
                ELSE JSONArray(s, j, <<>>)
        ELSE IF c = "n" /\ Slice(s, i, i + 3) = "null" THEN Scanned(PyNone, i + 4)
        ELSE IF c = "t" /\ Slice(s, i, i + 3) = "true" THEN Scanned(PyBool(TRUE), i + 4)
        ELSE IF c = "f" /\ Slice(s, i, i + 4) = "false" THEN Scanned(PyBool(FALSE), i + 5)
        ELSE IF c = "-" \/ IsIn(c, DecDigits) THEN ScanNumber(s, i)
        ELSE ScanFail("Expecting value", i)

\* s[i] is where a member "key": value is due; items are the members so far
JSONObject(s, i, items) ==
    IF At(s, i) # "\""
    THEN ScanFail("Expecting property name enclosed in double quotes", i)
    ELSE LET key == ScanString(s, i)
         IN  IF ~key.ok THEN key
             ELSE LET c == SkipWs(s, key.next)
                  IN  IF At(s, c) # ":" THEN ScanFail("Expecting ':' delimiter", c)
                      ELSE LET val == scan_once(s, SkipWs(s, c + 1))
                           IN  IF ~val.ok THEN val
                               ELSE LET e == SkipWs(s, val.next)
                                        more == DictSet(items, key.v.s, val.v)
                                    IN  IF At(s, e) = "}" THEN Scanned(PyDict(more), e + 1)
                                        ELSE IF At(s, e) = ","
                                        THEN JSONObject(s, SkipWs(s, e + 1), more)
                                        ELSE ScanFail("Expecting ',' delimiter", e)

\* s[i] is where an element is due; acc are the elements so far
JSONArray(s, i, acc) ==
    LET val == scan_once(s, i)
    IN  IF ~val.ok THEN val
        ELSE LET e == SkipWs(s, val.next)
                 more == Append(acc, val.v)
             IN  IF At(s, e) = "]" THEN Scanned(PyList(more), e + 1)
                 ELSE IF At(s, e) = "," THEN JSONArray(s, SkipWs(s, e + 1), more)
                 ELSE ScanFail("Expecting ',' delimiter", e)

\* str(e) of a JSONDecodeError on a one-line document
JSONDecodeError(msg, pos) ==
    Exc("JSONDecodeError",
        msg \o ": line 1 column " \o int_str(pos) \o " (char " \o int_str(pos - 1) \o ")")

\* json.loads(s): the value, or the JSONDecodeError raised
json_loads(s) ==
    LET r == scan_once(s, SkipWs(s, 1))
    IN  IF ~r.ok THEN [exc |-> JSONDecodeError(r.msg, r.pos), v |-> PyNone]
        ELSE LET e == SkipWs(s, r.next)
             IN  IF e # Len(s) + 1
                 THEN [exc |-> JSONDecodeError("Extra data", e), v |-> PyNone]
                 ELSE Ok(r.v)

(***************************************************************************)
(* The Python operations the scripts apply to the parsed document.         *)
(***************************************************************************)
RECURSIVE py_repr(_), repr_items(_, _), repr_elems(_, _)
py_repr(v) ==
    IF v.t = "NoneType" THEN "None"
    ELSE IF v.t = "bool" THEN bool_str(v.b)
    ELSE IF v.t = "int" THEN int_str(v.n)
    ELSE IF v.t = "str" THEN "'" \o v.s \o "'"
    ELSE IF v.t = "list" THEN "[" \o repr_elems(v.a, 1) \o "]"
    ELSE "{" \o repr_items(v.items, 1) \o "}"
repr_items(items, i) ==
    IF i > Len(items) THEN ""
    ELSE (IF i > 1 THEN ", " ELSE "")
         \o "'" \o items[i].k \o "': " \o py_repr(items[i].v) \o repr_items(items, i + 1)
repr_elems(a, i) ==
    IF i > Len(a) THEN ""
    ELSE (IF i > 1 THEN ", " ELSE "") \o py_repr(a[i]) \o repr_elems(a, i + 1)

\* format(v) inside an f-string
py_str(v) == IF v.t = "str" THEN v.s ELSE py_repr(v)

\* bool(v)
py_truthy(v) ==
    IF v.t = "NoneType" THEN FALSE
    ELSE IF v.t = "bool" THEN v.b
    ELSE IF v.t = "int" THEN v.n # 0
    ELSE IF v.t = "str" THEN Len(v.s) > 0
    ELSE IF v.t = "list" THEN Len(v.a) > 0
    ELSE Len(v.items) > 0

IsSubstr(n, s) == \E i \in 1..(Len(s) - Len(n) + 1) : SubSeq(s, i, i + Len(n) - 1) = n

\* key in v, for a str key
py_contains(key, v) ==
    IF v.t = "dict" THEN Ok(PyBool(HasKey(v.items, key)))
    ELSE IF v.t = "list"
    THEN Ok(PyBool(\E i \in 1..Len(v.a) : v.a[i].t = "str" /\ v.a[i].s = key))
    ELSE IF v.t = "str" THEN Ok(PyBool(IsSubstr(key, v.s)))
    ELSE Raise("TypeError", "argument of type '" \o v.t \o "' is not iterable")

\* a variant that yields None for a missing key, as v.get(key) does
py_getitem_or_none(v, key) ==
    IF v.t = "dict"
    THEN IF HasKey(v.items, key) THEN Ok(v.items[KeyIndex(v.items, key)].v)
         ELSE Ok(PyNone)
    ELSE IF v.t = "list"
    THEN Raise("TypeError", "list indices must be integers or slices, not str")
    ELSE IF v.t = "str"
    THEN Raise("TypeError", "string indices must be integers, not 'str'")
    ELSE Raise("TypeError", "'" \o v.t \o "' object is not subscriptable")

\* v[key], for a str key
py_getitem(v, key) ==
    IF v.t = "dict"
    THEN IF HasKey(v.items, key) THEN Ok(v.items[KeyIndex(v.items, key)].v)
         ELSE Raise("KeyError", "'" \o key \o "'")
    ELSE IF v.t = "list"
    THEN Raise("TypeError", "list indices must be integers or slices, not str")
    ELSE IF v.t = "str"
    THEN Raise("TypeError", "string indices must be integers, not 'str'")
    ELSE Raise("TypeError", "'" \o v.t \o "' object is not subscriptable")

\* v.get(key)
py_get(v, key) ==
    IF v.t = "dict"
    THEN IF HasKey(v.items, key) THEN Ok(v.items[KeyIndex(v.items, key)].v)
         ELSE Ok(PyNone)
    ELSE Raise("AttributeError", "'" \o v.t \o "' object has no attribute 'get'")

(***************************************************************************)
(* int(s, 16): blanks around the numeral are dropped, then an optional     *)
(* sign, an optional 0x / 0X, and hex digits, one underscore allowed       *)
(* between two digits and after the prefix.                                *)
(***************************************************************************)
RECURSIVE LStrip(_), RStrip(_)
LStrip(s) == IF Len(s) > 0 /\ Ch(s, 1) = " " THEN LStrip(SubSeq(s, 2, Len(s))) ELSE s
RStrip(s) == IF Len(s) > 0 /\ Ch(s, Len(s)) = " " THEN RStrip(SubSeq(s, 1, Len(s) - 1)) ELSE s

IsHexDigit(c) == IsIn(c, HexLower) \/ IsIn(c, HexUpper)
HexDigitValue(c) == IF IsIn(c, HexLower) THEN IndexOf(c, HexLower) - 1
                    ELSE IndexOf(c, HexUpper) - 1

\* digits, each underscore between two digits
RECURSIVE DigitsOk(_, _)
DigitsOk(d, i) ==
    IF i > Len(d) THEN Len(d) > 0
    ELSE IF IsHexDigit(Ch(d, i)) THEN DigitsOk(d, i + 1)
    ELSE Ch(d, i) = "_" /\ i > 1 /\ IsHexDigit(Ch(d, i - 1)) /\ IsHexDigit(At(d, i + 1))
         /\ DigitsOk(d, i + 1)

RECURSIVE DigitsValue(_, _, _)
DigitsValue(d, i, acc) ==
    IF i > Len(d) THEN acc
    ELSE IF Ch(d, i) = "_" THEN DigitsValue(d, i + 1, acc)
    ELSE DigitsValue(d, i + 1, 16 * acc + HexDigitValue(Ch(d, i)))

\* int(v, 16) of a str v
str_base16(v) ==
    LET body == RStrip(LStrip(v.s))
             sign == IF At(body, 1) = "-" THEN 0 - 1 ELSE 1
             unsigned == IF At(body, 1) = "-" \/ At(body, 1) = "+"
                         THEN SubSeq(body, 2, Len(body)) ELSE body
             prefixed == At(unsigned, 1) = "0" /\ (At(unsigned, 2) = "x" \/ At(unsigned, 2) = "X")
             afterp == IF prefixed THEN SubSeq(unsigned, 3, Len(unsigned)) ELSE unsigned
             digits == IF prefixed /\ At(afterp, 1) = "_"
                       THEN SubSeq(afterp, 2, Len(afterp)) ELSE afterp
         IN  IF DigitsOk(digits, 1) THEN Ok(PyInt(sign * DigitsValue(digits, 1, 0)))
             ELSE Raise("ValueError",
                        "invalid literal for int() with base 16: " \o py_repr(v))

\* a variant that takes a number as it is, as int(v) does
int_of_any(v) ==
    IF v.t = "int" THEN Ok(v)
    ELSE IF v.t # "str"
    THEN Raise("TypeError", "int() can't convert non-string with explicit base")
    ELSE str_base16(v)

\* int(v, 16)
int_base16(v) ==
    IF v.t # "str" THEN Raise("TypeError", "int() can't convert non-string with explicit base")
    ELSE str_base16(v)

(***************************************************************************)
(* filter_block_number, in its two copies.                                 *)
(***************************************************************************)
\* processed_block.get(key, default)
dict_get(d, key, default) ==
    IF HasKey(d.items, key) THEN d.items[KeyIndex(d.items, key)].v ELSE default

\* a variant with the comparison turned round
filter_block_number_odd(processed_block) ==
    LET block_number == dict_get(processed_block, "block_number", PyInt(0))
    IN  block_number.n % 2 = 1

\* config/filters/filter_block_number.py
filter_block_number(processed_block) ==
    LET block_number == dict_get(processed_block, "block_number", PyInt(0))
    IN  block_number.n % 2 = 0

\* a variant that refuses a block without block_number
test3_filter_block_number_strict(processed_block) ==
    /\ HasKey(processed_block.items, "block_number")
    /\ dict_get(processed_block, "block_number", PyInt(0)).n % 2 = 0

\* tests/integration/fixtures/filters/test3.py
test3_filter_block_number(processed_block) ==
    LET block_number == dict_get(processed_block, "block_number", PyInt(0))
    IN  block_number.n % 2 = 0

(***************************************************************************)
(* The documents offered to the scripts.                                   *)
(***************************************************************************)
RECURSIVE ToHex(_)
ToHex(n) == IF n < 16 THEN HexLower[n + 1]
            ELSE ToHex(n \div 16) \o HexLower[(n % 16) + 1]

Quoted(s) == "\"" \o s \o "\""

\* hex numerals: digits only, and with the 0x prefix
HexNumerals == {ToHex(n) : n \in 0..MaxLedger} \cup {"0x" \o ToHex(n) : n \in 0..MaxLedger}
\* other strings a ledger field may hold
OtherStrings == {"", "zz", "0x", "x1", " 1f ", "-3", "-4", "+4", "1_0", "0x_1e", "_1", "1_",
                 "1__0", "0X1F", "0XA", " 0x0 "}
\* JSON texts of a ledger value: strings, numbers, and the rest
LedgerTexts ==
    {Quoted(h) : h \in HexNumerals \cup OtherStrings}
    \cup {int_str(n) : n \in 0..MaxLedger} \cup {"-1", "-2"}
    \cup {"null", "true", "false", "[]", "{}", "[1]", "{\"a\":1}"}

\* the shape stellar_filter_block_number.py reads
StellarPayload(ledger) == "{\"Stellar\":{\"transaction\":{\"ledger\":" \o ledger \o "}}}"
\* the shape of a ledger-chain filter payload
SequencePayload(sequence) == "{\"Stellar\":{\"ledger\":{\"sequence\":" \o sequence \o "}}}"
\* a ProcessedBlock
BlockPayload(n) ==
    "{\"block_number\":" \o int_str(n) \o ",\"network_slug\":\"x\",\"processing_results\":[]}"
\* a trigger script's input: an EVM match in block n, and the trigger's args
MatchPayload(n, args) ==
    "{\"monitor_match\":{\"EVM\":{\"transaction\":{\"blockNumber\":\"0x" \o ToHex(n)
    \o "\"}}},\"args\":" \o args \o "}"
ArgsTexts == {"null", "{}", "{\"k\":\"v\"}", "\"s\"", "[1, 2]"}

\* texts that are no JSON document
BrokenTexts == {"", " ", "{", "--verbose", "{} x", "[1,]", "{\"a\" 1}", "{\"a\":1,}",
                "\"abc", "{\"a\":}", "nul", "-", "01", "[1 2]", "{1:2}"}
\* documents of another shape than the scripts read
OtherDocs == {"5", "0", "null", "true", "\"Stellar\"", "\"monitor_match\"", "[\"Stellar\"]",
              "[]", "{}", "{\"Stellar\":{}}", "{\"Stellar\":5}", "{\"Stellar\":null}",
              "{\"Stellar\":\"transaction\"}", "{\"Stellar\":[\"transaction\"]}",
              "{\"Stellar\":{\"transaction\":{}}}", "{\"Stellar\":{\"transaction\":[]}}",
              "{\"Stellar\":{\"transaction\":5}}", "{\"Stellar\":{\"transaction\":\"ledger\"}}",
              " { \"Stellar\" : { \"transaction\" : { \"ledger\" : \"0x2\" } } } ",
              "{\"Stellar\":1,\"Stellar\":{\"transaction\":{\"ledger\":\"2\"}}}",
              "{\"stellar\":{\"transaction\":{\"ledger\":\"2\"}}}",
              "{\"monitor_match\":1}", "{\"args\":1}", "{\"args\":{},\"monitor_match\":null}",
              "{\"monitor_match\":{},\"args\":{\"a\":{\"b\":[true,null,-7,\"c\"]}}}"}

Payloads ==
    {StellarPayload(l) : l \in LedgerTexts}
    \cup {SequencePayload(l) : l \in {int_str(n) : n \in 0..MaxLedger}
                                     \cup {Quoted("0x" \o ToHex(n)) : n \in 0..MaxLedger}}
    \cup {BlockPayload(n) : n \in 0..MaxBlock}
    \cup {MatchPayload(n, a) : n \in 0..MaxBlock, a \in ArgsTexts}
    \cup BrokenTexts \cup OtherDocs

\* the processed_block dictionaries handed to filter_block_number
\* 2^30 + (2^30 - 1) = 2^31 - 1, the largest integer TLC represents
BlockNumbers == 0..MaxBlock \cup {1000000, 1000001, 2^30, 2^30 + (2^30 - 1)}
Block(n) == PyDict(<<[k |-> "block_number", v |-> PyInt(n)],
                     [k |-> "network_slug", v |-> PyStr("x")],
                     [k |-> "processing_results", v |-> PyList(<<>>)]>>)
BlockWithoutNumber(slug) == PyDict(<<[k |-> "network_slug", v |-> PyStr(slug)],
                                     [k |-> "processing_results", v |-> PyList(<<>>)]>>)
Slugs == {"x", "ethereum-mainnet", "polygon-mainnet"}

Stellar == "stellar_filter_block_number.py"
Custom == "custom_notification.py"
FilterModule == "filter_block_number.py"
Scripts == {Stellar, Custom, FilterModule}
InputModes == {"stdin-json", "argv-json"}
ExtraArgValues == {"--verbose", StellarPayload(Quoted("0x1"))}
RECURSIVE SeqsUpTo(_, _)
SeqsUpTo(S, n) ==
    IF n = 0 THEN {<<>>}
    ELSE SeqsUpTo(S, n - 1) \cup {Append(q, x) : q \in SeqsUpTo(S, n - 1), x \in S}

(***************************************************************************)
(* State.                                                                  *)
(***************************************************************************)
VARIABLES
    script,          \* ScriptSpec.executable_path, or "call" for a function call
    input_mode,      \* ScriptSpec.input_mode
    extra_args,      \* ScriptSpec.extra_args
    payload,         \* the document the monitor hands over
    argv,            \* sys.argv of the process (argv[1] is Python's sys.argv[0])
    stdin,           \* the process's standard input
    pc,              \* where the process is
    stdout,          \* the lines printed so far
    input_data,      \* the text handed to json.loads
    data,            \* the parsed document
    ledger_number,   \* stellar main's local
    exc,             \* the exception caught as e
    result,          \* what main() returned
    processed_block, \* the argument of filter_block_number
    returned         \* what the two copies of filter_block_number returned

vars == <<script, input_mode, extra_args, payload, argv, stdin, pc, stdout, input_data,
          data, ledger_number, exc, result, processed_block, returned>>

spec_vars == <<script, input_mode, extra_args, payload>>
proc_vars == <<argv, stdin>>
call_vars == <<processed_block, returned>>

Init ==
    /\ \/ /\ script \in Scripts
          /\ input_mode \in InputModes
          /\ extra_args \in SeqsUpTo(ExtraArgValues, MaxExtra)
          /\ payload \in Payloads
          /\ processed_block = PyNone
          /\ pc = "spawn"
       \/ /\ script = "call"
          /\ input_mode = "none"
          /\ extra_args = <<>>
          /\ payload = ""
          /\ processed_block \in {Block(n) : n \in BlockNumbers}
                                 \cup {BlockWithoutNumber(g) : g \in Slugs}
          /\ pc = "call"
    /\ argv = <<>>
    /\ stdin = ""
    /\ stdout = <<>>
    /\ input_data = ""
    /\ data = PyNone
    /\ ledger_number = PyNone
    /\ exc = NoExc
    /\ result = PyNone
    /\ returned = PyNone

(***************************************************************************)
(* The Script Invoker: launches the executable with extra_args and hands   *)
(* the payload over on standard input or as the final argument.            *)
(***************************************************************************)
invoker_argv(mode, extra, doc) ==
    <<script>> \o extra \o (IF mode = "argv-json" THEN <<doc>> ELSE <<>>)
invoker_stdin(mode, doc) == IF mode = "stdin-json" THEN doc ELSE ""

invoke ==
    /\ pc = "spawn"
    /\ argv' = invoker_argv(input_mode, extra_args, payload)
    /\ stdin' = invoker_stdin(input_mode, payload)
    /\ pc' = "start"
    /\ UNCHANGED <<spec_vars, call_vars, stdout, input_data, data, ledger_number, exc, result>>

print(line) == stdout' = Append(stdout, line)

(***************************************************************************)
(* stellar_filter_block_number.py                                          *)
(***************************************************************************)
\* a variant reading the last argument, sys.argv[-1]
sys_argv_last(a) == a[Len(a)]

\* sys.argv[1]
sys_argv_1(a) == a[2]

\* lines 9-11
stellar_check_argv ==
    /\ pc = "start" /\ script = Stellar
    /\ IF Len(argv) < 2
       THEN /\ print("No input JSON provided")
            /\ result' = PyBool(FALSE)
            /\ pc' = "return"
       ELSE /\ pc' = "loads"
            /\ UNCHANGED <<stdout, result>>
    /\ UNCHANGED <<spec_vars, proc_vars, call_vars, input_data, data, ledger_number, exc>>

\* lines 14-18
stellar_loads ==
    /\ pc = "loads" /\ script = Stellar
    /\ input_data' = sys_argv_1(argv)
    /\ LET r == json_loads(sys_argv_1(argv))
       IN  IF r.exc.type = "JSONDecodeError"
           THEN /\ print("Invalid JSON input: " \o r.exc.msg)
                /\ result' = PyBool(FALSE)
                /\ pc' = "return"
                /\ UNCHANGED data
           ELSE /\ data' = r.v
                /\ pc' = "extract"
                /\ UNCHANGED <<stdout, result>>
    /\ UNCHANGED <<spec_vars, proc_vars, call_vars, ledger_number, exc>>

\* lines 21-25: the ledger number, None, or the exception raised on the way
extract_ledger_number(d) ==
    LET has == py_contains("Stellar", d)
    IN  IF has.exc # NoExc THEN has
        ELSE IF ~has.v.b THEN Ok(PyNone)
        ELSE LET st == py_getitem(d, "Stellar")
             IN  IF st.exc # NoExc THEN st
                 ELSE LET tx == py_getitem(st.v, "transaction")
                      IN  IF tx.exc # NoExc THEN tx
                          ELSE LET ledger == py_get(tx.v, "ledger")
                               IN  IF ledger.exc # NoExc THEN ledger
                                   ELSE IF py_truthy(ledger.v) THEN int_base16(ledger.v)
                                   ELSE Ok(PyNone)

stellar_extract ==
    /\ pc = "extract" /\ script = Stellar
    /\ LET r == extract_ledger_number(data)
       IN  IF r.exc # NoExc
           THEN /\ exc' = r.exc
                /\ pc' = "except"
                /\ UNCHANGED ledger_number
           ELSE /\ ledger_number' = r.v
                /\ pc' = "check_none"
                /\ UNCHANGED exc
    /\ UNCHANGED <<spec_vars, proc_vars, call_vars, stdout, input_data, data, result>>

\* a variant testing truth, as "if not ledger_number" does
is_falsy(v) == v.t = "NoneType" \/ (v.t = "int" /\ v.n = 0)

\* ledger_number is None
is_none(v) == v.t = "NoneType"

\* lines 27-29
stellar_check_none ==
    /\ pc = "check_none" /\ script = Stellar
    /\ IF is_none(ledger_number)
       THEN /\ print("Ledger number is None")
            /\ result' = PyBool(FALSE)
            /\ pc' = "return"
       ELSE /\ pc' = "parity"
            /\ UNCHANGED <<stdout, result>>
    /\ UNCHANGED <<spec_vars, proc_vars, call_vars, input_data, data, ledger_number, exc>>

\* ledger_number % 2 == 0
is_even(n) == n % 2 = 0

\* lines 31-34 (logging.info, at the root logger's default level, writes nothing)
stellar_parity ==
    /\ pc = "parity" /\ script = Stellar
    /\ LET even == is_even(ledger_number.n)
       IN  /\ print("Ledger number " \o int_str(ledger_number.n) \o " is "
                    \o (IF even THEN "even" ELSE "odd"))
           /\ result' = PyBool(even)
    /\ pc' = "return"
    /\ UNCHANGED <<spec_vars, proc_vars, call_vars, input_data, data, ledger_number, exc>>

\* lines 36-38
stellar_except ==
    /\ pc = "except" /\ script = Stellar
    /\ print("Error processing input: " \o exc.msg)
    /\ result' = PyBool(FALSE)
    /\ pc' = "return"
    /\ UNCHANGED <<spec_vars, proc_vars, call_vars, input_data, data, ledger_number, exc>>

\* a variant without .lower()
final_line_as_is(r) == bool_str(r.b)

\* str(result).lower()
final_line(r) == str_lower(bool_str(r.b))

\* lines 41-43
stellar_print_result ==
    /\ pc = "return" /\ script = Stellar
    /\ print(final_line(result))
    /\ pc' = "done"
    /\ UNCHANGED <<spec_vars, proc_vars, call_vars, input_data, data, ledger_number, exc, result>>

(***************************************************************************)
(* custom_notification.py                                                  *)
(***************************************************************************)
\* lines 25-28
custom_read ==
    /\ pc = "start" /\ script = Custom
    /\ input_data' = stdin
    /\ IF Len(stdin) = 0
       THEN /\ print("No input JSON provided")
            /\ result' = PyBool(FALSE)
            /\ pc' = "return"
       ELSE /\ pc' = "loads"
            /\ UNCHANGED <<stdout, result>>
    /\ UNCHANGED <<spec_vars, proc_vars, call_vars, data, ledger_number, exc>>

\* lines 31-32, 37-39
custom_loads ==
    /\ pc = "loads" /\ script = Custom
    /\ LET r == json_loads(input_data)
       IN  IF r.exc.type = "JSONDecodeError"
           THEN /\ print("Invalid JSON input: " \o r.exc.msg)
                /\ result' = PyBool(FALSE)
                /\ pc' = "return"
                /\ UNCHANGED data
           ELSE /\ data' = r.v
                /\ pc' = "keys"
                /\ UNCHANGED <<stdout, result>>
    /\ UNCHANGED <<spec_vars, proc_vars, call_vars, input_data, ledger_number, exc>>

\* lines 33-34: args, or the exception raised by one of the two lookups
match_and_args(d) ==
    LET monitor_match == py_getitem(d, "monitor_match")
    IN  IF monitor_match.exc # NoExc THEN monitor_match
        ELSE py_getitem(d, "args")

\* what main returns once both keys were read (line 40)
custom_decision(d) == TRUE

\* lines 33-36, 40
custom_keys ==
    /\ pc = "keys" /\ script = Custom
    /\ LET r == match_and_args(data)
       IN  IF r.exc # NoExc
           THEN /\ exc' = r.exc
                /\ pc' = "except"
                /\ UNCHANGED <<stdout, result>>
           ELSE /\ IF py_truthy(r.v) THEN print("Args: " \o py_str(r.v))
                                     ELSE UNCHANGED stdout
                /\ result' = PyBool(custom_decision(data))
                /\ pc' = "return"
                /\ UNCHANGED exc
    /\ UNCHANGED <<spec_vars, proc_vars, call_vars, input_data, data, ledger_number>>

\* lines 42-44
custom_except ==
    /\ pc = "except" /\ script = Custom
    /\ print("Error processing input: " \o exc.msg)
    /\ result' = PyBool(FALSE)
    /\ pc' = "return"
    /\ UNCHANGED <<spec_vars, proc_vars, call_vars, input_data, data, ledger_number, exc>>

\* lines 47-49
custom_print_result ==
    /\ pc = "return" /\ script = Custom
    /\ print(final_line(result))
    /\ pc' = "done"
    /\ UNCHANGED <<spec_vars, proc_vars, call_vars, input_data, data, ledger_number, exc, result>>

(***************************************************************************)
(* filter_block_number.py run as a program: the module defines the         *)
(* function and ends; nothing reads the input, nothing is printed.         *)
(***************************************************************************)
filter_module_run ==
    /\ pc = "start" /\ script = FilterModule
    /\ pc' = "done"
    /\ UNCHANGED <<spec_vars, proc_vars, call_vars, stdout, input_data, data, ledger_number,
                   exc, result>>

(***************************************************************************)
(* filter_block_number called on a processed_block, in both copies.        *)
(***************************************************************************)
call_filter_block_number ==
    /\ pc = "call"
    /\ returned' = [t |-> "returned",
                    config |-> filter_block_number(processed_block),
                    test3 |-> test3_filter_block_number(processed_block)]
    /\ pc' = "done"
    /\ UNCHANGED <<spec_vars, proc_vars, processed_block, stdout, input_data, data,
                   ledger_number, exc, result>>

Next ==
    \/ invoke
    \/ stellar_check_argv
    \/ stellar_loads
    \/ stellar_extract
    \/ stellar_check_none
    \/ stellar_parity
    \/ stellar_except
    \/ stellar_print_result
    \/ custom_read
    \/ custom_loads
    \/ custom_keys
    \/ custom_except
    \/ custom_print_result
    \/ filter_module_run
    \/ call_filter_block_number

Spec == Init /\ [][Next]_vars

(***************************************************************************)
(* Properties.                                                             *)
(***************************************************************************)
Done == pc = "done"
LastLine == IF Len(stdout) = 0 THEN "" ELSE stdout[Len(stdout)]
Decisions == {"true", "false"}
HasNumber(b) == HasKey(b.items, "block_number")
NumberOf(b) == b.items[KeyIndex(b.items, "block_number")].v.n
\* the Stellar filter was launched with doc as sys.argv[1] and has ended
StellarEndedOn(doc) == script = Stellar /\ Done /\ Len(argv) >= 2 /\ argv[2] = doc
\* the trigger script read doc from standard input and has ended
CustomEndedOn(doc) == script = Custom /\ Done /\ stdin = doc

\* C1: for a processed_block whose block_number is an integer n >= 0, both copies of
\* filter_block_number return True exactly when n is twice some integer, and they agree.
C1_FilterIsParity ==
    (script = "call" /\ Done /\ HasNumber(processed_block)) =>
        LET n == NumberOf(processed_block)
        IN  /\ returned.config = (n = 2 * (n \div 2))
            /\ returned.test3 = (n = 2 * (n \div 2))
            /\ returned.config = returned.test3
C1_Witness ==
    /\ script = "call" /\ Done /\ HasNumber(processed_block)
    /\ NumberOf(processed_block) = 1000001
    /\ returned.config = FALSE /\ returned.test3 = FALSE

\* C2: on every path of the two programs, whatever argv and stdin hold, main hands a
\* bool to the final print, and once the program has ended the last line of standard
\* output is exactly true or exactly false, every other line having been written before.
C2_LastLineIsDecision ==
    script \in {Stellar, Custom} =>
        /\ pc = "return" => result \in {PyBool(TRUE), PyBool(FALSE)}
        /\ Done => /\ Len(stdout) >= 1
                   /\ LastLine \in Decisions
                   /\ LastLine = (IF result.b THEN "true" ELSE "false")
C2_Witness ==
    /\ script = Custom /\ Done
    /\ Len(stdout) = 2
    /\ stdout[1] = "Args: {'k': 'v'}"
    /\ stdout[2] = "true"

\* C3 (as claimed): the trigger script prints true for a match in an even-numbered block
\* and false for a match in an odd-numbered block.
C3_TriggerFollowsBlockParity ==
    \A n \in 0..MaxBlock, a \in ArgsTexts :
        CustomEndedOn(MatchPayload(n, a)) =>
            LastLine = (IF n % 2 = 0 THEN "true" ELSE "false")

\* C4 (as claimed): on a payload { "Stellar": { "ledger": { "sequence": s } } } handed over
\* as the first argument, the Stellar filter prints true exactly when s is even.
C4_SequenceParityDecides ==
    \A n \in 0..MaxLedger :
        /\ StellarEndedOn(SequencePayload(int_str(n))) => (LastLine = "true") = (n % 2 = 0)
        /\ StellarEndedOn(SequencePayload(Quoted("0x" \o ToHex(n))))
               => (LastLine = "true") = (n % 2 = 0)

\* C5 (as claimed): a script run in stdin-json mode on the payload with block_number 4
\* ends its standard output with true, and with block_number 5 with false.
C5_BlockPayloadOverStdin ==
    (script \in {Custom, FilterModule} /\ input_mode = "stdin-json" /\ Done) =>
        /\ payload = BlockPayload(4) => LastLine = "true"
        /\ payload = BlockPayload(5) => LastLine = "false"

Parsing == script = Stellar /\ input_mode = "argv-json" /\ pc \notin {"spawn", "start", "loads"}

\* C6 (as claimed): in argv-json mode, whatever extra_args holds, the text the Stellar
\* filter hands to json.loads is the payload.
C6_ParsesThePayload == Parsing => input_data = payload

\* C6 (amended): in argv-json mode the Stellar filter parses the payload when extra_args
\* is empty, and the first entry of extra_args otherwise; the document it decides on is
\* what json.loads makes of that text.
C6_ParsesFirstArgument ==
    Parsing =>
        LET first == IF extra_args = <<>> THEN payload ELSE extra_args[1]
        IN  /\ input_data = first
            /\ pc \in {"extract", "check_none", "parity"} => data = json_loads(first).v
C6_Witness ==
    /\ script = Stellar /\ input_mode = "argv-json" /\ Done
    /\ extra_args = <<>>
    /\ payload = StellarPayload(Quoted("0x2"))
    /\ input_data = payload
    /\ LastLine = "true"

\* ledger strings that are no hexadecimal numeral
NotHex == {"zz", "0x", "x1", "_1", "1_", "1__0"}
\* documents without a "Stellar" key
NoStellarKey == {"{}", "{\"stellar\":{\"transaction\":{\"ledger\":\"2\"}}}",
                 "{\"monitor_match\":1}"}
                \cup {BlockPayload(n) : n \in 0..MaxBlock}
                \cup {MatchPayload(n, "null") : n \in 0..MaxBlock}
\* documents with "Stellar" and without "transaction"
NoTransactionKey == {"{\"Stellar\":{}}"} \cup {SequencePayload(int_str(n)) : n \in 0..MaxLedger}
\* documents without monitor_match, and without args
NoMonitorMatch == {"{}", "{\"args\":1}"} \cup {BlockPayload(n) : n \in 0..MaxBlock}
                  \cup {StellarPayload(Quoted("0x2"))}
NoArgs == {"{\"monitor_match\":1}"}
NotJson == BrokenTexts \ {""}

StellarInputError ==
    /\ script = Stellar
    /\ \/ Len(argv) < 2
       \/ /\ Len(argv) >= 2
          /\ argv[2] \in NotJson \cup {""} \cup NoStellarKey \cup NoTransactionKey
                         \cup {StellarPayload(Quoted(h)) : h \in NotHex}
CustomInputError ==
    /\ script = Custom
    /\ stdin \in {""} \cup NotJson \cup NoMonitorMatch \cup NoArgs

\* C7: a missing argument, a text that is no JSON, a document without "Stellar" or
\* without "transaction", a ledger that is no hexadecimal numeral (Stellar filter), an
\* empty stdin, a text that is no JSON, a document without monitor_match or args
\* (trigger): in each case the run ends, main returned False and the last line is false.
C7_InputErrorsGiveFalse ==
    (pc # "spawn" /\ (StellarInputError \/ CustomInputError)) =>
        /\ pc = "return" => result = PyBool(FALSE)
        /\ Done => (result = PyBool(FALSE) /\ LastLine = "false")
C7_Witness ==
    /\ CustomEndedOn("{\"monitor_match\":1}")
    /\ exc.type = "KeyError"
    /\ stdout = <<"Error processing input: 'args'", "false">>

C9_NumericLedgerIsFalse ==
    \A n \in 0..MaxLedger :
        StellarEndedOn(StellarPayload(int_str(n))) => LastLine = "false"
C9_Witness ==
    /\ StellarEndedOn(StellarPayload("2"))
    /\ exc.type = "TypeError"
    /\ LastLine = "false"

\* documents with Stellar.transaction and without ledger
NoLedgerKey == {"{\"Stellar\":{\"transaction\":{}}}"}

\* C10: filter_block_number, in both copies, returns True for a processed_block without
\* block_number, while the Stellar filter prints false when Stellar, transaction or
\* ledger is missing and the trigger script prints false when monitor_match or args is.
C10_MissingFieldDefaults ==
    /\ (script = "call" /\ Done /\ ~HasNumber(processed_block))
           => (returned.config = TRUE /\ returned.test3 = TRUE)
    /\ \A doc \in NoStellarKey \cup NoTransactionKey \cup NoLedgerKey :
           StellarEndedOn(doc) => LastLine = "false"
    /\ \A doc \in NoMonitorMatch \cup NoArgs :
           CustomEndedOn(doc) => LastLine = "false"
C10_Witness ==
    /\ script = "call" /\ Done
    /\ ~HasNumber(processed_block)
    /\ returned.config = TRUE /\ returned.test3 = TRUE
====
